---- MODULE Spec2Model ----
(***************************************************************************)
(* A model of confluence/client.py: the Confluence client, its scoped      *)
(* transport session (__enter__/__exit__), the single-result fetch, the    *)
(* lazy pager (_get_paged_results, a Python generator) and the query       *)
(* builders that funnel into the two.                                      *)
(*                                                                         *)
(* Python values are modelled as follows.  Strings are strings, lists are  *)
(* sequences, dicts are functions from string keys.  None is a reserved    *)
(* value per type (NoneStr, NoneList, NoneDate, NoClient, NoneObj, NoAuth).*)
(* A generator is a record holding its frame (the locals of                *)
(* _get_paged_results) and its position; its steps are separate actions    *)
(* because each GET is answered by the server.  The fields reqs, served,   *)
(* out and last of a generator record are history: the requests it issued, *)
(* the bodies it received, the items it delivered and the outcome of the   *)
(* latest next().                                                          *)
(*                                                                         *)
(* Two instances run side by side on the same calls and the same server    *)
(* answers: the instance c, which may be used inside `with` blocks, and an *)
(* instance that never enters a block (its _client stays None).            *)
(***************************************************************************)
EXTENDS Integers, Sequences, FiniteSets, TLC

VARIABLES client, sessions, block, asTarget, raised, gen, call, genA, callA

vars == <<client, sessions, block, asTarget, raised, gen, call, genA, callA>>

\* ------------------------------------------------------------------ bounds

\* Pages a server answers with in one iteration, at most.
MaxPages == 2
\* Objects in one page's result list, at most.
MaxItems == 2
\* Usage blocks entered on the instance, at most.
MaxSessions == 2

\* ----------------------------------------------------------- Python values

NoneStr == "<None>"
NoneList == <<"<None>">>
NoneDate == [y |-> 0, m |-> 0, d |-> 0]
NoneObj == "None"
NoClient == 0
NoAuth == <<>>
EmptyDict == <<>>

\* Python truthiness of an Optional[str]: None and '' are false.
TruthyStr(s) == s # NoneStr /\ s # ""
\* Python truthiness of an Optional[List[str]]: None and [] are false.
TruthyList(l) == l # NoneList /\ l # <<>>
\* Python truthiness of an Optional[date]: every date object is true.
TruthyDate(d) == d # NoneDate

\* d[k] = v on a dict.
Put(d, k, v) == (k :> v) @@ d

\* sep.join(xs)
RECURSIVE Join(_, _)
Join(sep, xs) ==
    IF xs = <<>> THEN ""
    ELSE IF Len(xs) = 1 THEN xs[1]
    ELSE xs[1] \o sep \o Join(sep, Tail(xs))

\* A zero-padded two-digit field of strftime (%m, %d).
Pad2(n) == IF n < 10 THEN "0" \o ToString(n) ELSE ToString(n)

\* posting_day.strftime('%Y-%m-%d')
Strftime(day) == ToString(day.y) \o "-" \o Pad2(day.m) \o "-" \o Pad2(day.d)

\* '{}/{}'.format(a, b)
Format2(a, b) == a \o "/" \o b

\* ------------------------------------------------------------ construction

\* The arguments of Confluence(base_url, basic_auth).
base_url == "https://wiki/confluence"
basic_auth == <<"user", "secret">>
\* self._api_base
api_base == base_url \o "/rest/api"

\* item_type(result): a domain object built from a decoded JSON object.
Hydrate(item_type, result) == [type |-> item_type, json |-> result]

\* -------------------------------------------------------------- transport

\* requests.session() followed by the assignment of its auth attribute.
NewSession == [open |-> TRUE, auth |-> basic_auth]

\* self._client.get(url, params=params): the request as sent, with the
\* credentials held by the session.  The field via records the path taken.
\* A session that was closed still sends: close() releases its connections.
SessionGet(session, url, params) ==
    [url |-> url, params |-> params, auth |-> session.auth, via |-> "session"]

\* A variant of RequestsGet that forgets the credentials.
RequestsGetNoAuth(url, params, auth) ==
    [url |-> url, params |-> params, auth |-> NoAuth, via |-> "adhoc"]

\* requests.get(url, params=params, auth=self._basic_auth)
RequestsGet(url, params, auth) ==
    [url |-> url, params |-> params, auth |-> auth, via |-> "adhoc"]

\* The branch `if self._client: ... else: ...` of both fetch paths.
Get(cl, ss, url, params) ==
    IF cl # NoClient
    THEN SessionGet(ss[cl], url, params)
    ELSE RequestsGet(url, params, basic_auth)

\* `if expand: params['expand'] = ','.join(expand)`
WithExpand(params, expand) ==
    IF TruthyList(expand) THEN Put(params, "expand", Join(",", expand))
    ELSE params

\* _get_single_result: one GET, one hydrated object.
\* body is the decoded JSON of the answer.
GetSingleResult(cl, ss, item_type, path, params, expand, body) ==
    LET url == Format2(api_base, path)
        sent == WithExpand(params, expand)
    IN  [reqs |-> <<Get(cl, ss, url, sent)>>, ret |-> Hydrate(item_type, body)]

\* ------------------------------------------------------------------ pager

\* No generator held by the caller.
NoGen ==
    [st |-> "none", item_type |-> "", path |-> "", params |-> EmptyDict,
     expand |-> NoneList, url |-> NoneStr, results |-> <<>>, last |-> "",
     reqs |-> <<>>, served |-> <<>>, out |-> <<>>]

\* Calling _get_paged_results: a generator object whose body has not started;
\* it holds the arguments.
GetPagedResults(item_type, path, params, expand) ==
    [NoGen EXCEPT !.st = "created", !.item_type = item_type, !.path = path,
                  !.params = params, !.expand = expand]

\* A variant of NextUrl that stops after every page.
NextUrlStopsEarly(search_results) == NoneStr

\* A variant of NextUrl that appends the next-link to the API root.
NextUrlFromApiBase(search_results) ==
    IF "next" \in DOMAIN search_results["_links"]
    THEN api_base \o search_results["_links"]["next"]
    ELSE NoneStr

\* The url the loop continues with after a page.
NextUrl(search_results) ==
    IF "next" \in DOMAIN search_results["_links"]
    THEN base_url \o search_results["_links"]["next"]
    ELSE NoneStr

\* The parameter mapping the loop continues with after a page: params.clear()
\* when the page carries a next-link.
NextParams(params, search_results) ==
    IF "next" \in DOMAIN search_results["_links"] THEN EmptyDict ELSE params

\* A variant of Raise that swallows the error and keeps the generator alive.
RaiseSwallowed(g, exc) == [g EXCEPT !.st = "suspended", !.last = exc]

\* An exception leaving the generator's frame: the generator is finished and
\* the exception reaches the caller of next().
Raise(g, exc) == [g EXCEPT !.st = "failed", !.last = exc]

\* A variant of GenPC that requests the next page while the last object of
\* the current page is still to be delivered.
GenPCReadAhead(g) ==
    IF Len(g.results) = 1 /\ g.url # NoneStr THEN "fetch"
    ELSE IF g.results # <<>> THEN "yield"
    ELSE IF g.url # NoneStr THEN "fetch"
    ELSE "return"

\* Where a running generator continues: inside the for loop while objects of
\* the page remain, else at the while test.
GenPC(g) ==
    IF g.results # <<>> THEN "yield"
    ELSE IF g.url # NoneStr THEN "fetch"
    ELSE "return"

\* next() on the generator: the first one runs the statements before the
\* loop, a later one continues after the yield; on a finished generator it
\* raises StopIteration at once.
GenResume(g) ==
    IF g.st = "created"
    THEN [g EXCEPT !.st = "running", !.url = Format2(api_base, g.path),
                   !.params = WithExpand(g.params, g.expand)]
    ELSE IF g.st = "suspended" THEN [g EXCEPT !.st = "running"]
    ELSE [g EXCEPT !.last = "StopIteration"]

\* One pass of the while body up to the for loop: the GET, the next-link,
\* the result list.  search_results is the decoded JSON of the answer.
GenFetch(cl, ss, g, search_results) ==
    LET g1 == [g EXCEPT !.reqs = Append(@, Get(cl, ss, g.url, g.params)),
                        !.served = Append(@, search_results)]
    IN  IF "_links" \notin DOMAIN search_results THEN Raise(g1, "KeyError")
        ELSE LET g2 == [g1 EXCEPT !.url = NextUrl(search_results),
                                  !.params = NextParams(g.params, search_results)]
             IN  IF "results" \notin DOMAIN search_results
                 THEN Raise(g2, "KeyError")
                 ELSE [g2 EXCEPT !.results = search_results["results"]]

\* yield item_type(result)
GenYield(g) ==
    [g EXCEPT !.out = Append(@, Hydrate(g.item_type, Head(g.results))),
              !.results = Tail(@), !.st = "suspended", !.last = "item"]

\* The while test fails: the generator returns.
GenReturn(g) == [g EXCEPT !.st = "done", !.last = "StopIteration"]

\* --------------------------------------------------------- query builders

\* What a call of a query operation gives its caller: an object (with the
\* requests the call itself issued), a generator, or an exception.
Returned(single) ==
    [kind |-> "object", reqs |-> single.reqs, ret |-> single.ret, gen |-> NoGen]
Sequence(g) ==
    [kind |-> "sequence", reqs |-> <<>>, ret |-> Hydrate("", EmptyDict), gen |-> g]
Raised(exc) ==
    [kind |-> exc, reqs |-> <<>>, ret |-> Hydrate("", EmptyDict), gen |-> NoGen]

\* A variant of GetContentParams that sends postingDay for every content type.
GetContentParamsAnyType(content_type, space_key, title, status, posting_day) ==
    LET p1 == IF TruthyStr(content_type) /\ content_type \in {"page", "blogpost"}
              THEN Put(EmptyDict, "type", content_type) ELSE EmptyDict
        p2 == IF TruthyStr(space_key) THEN Put(p1, "spaceKey", space_key) ELSE p1
        p3 == IF TruthyStr(title) THEN Put(p2, "title", title) ELSE p2
        p4 == IF TruthyStr(status) THEN Put(p3, "status", status) ELSE p3
    IN  IF TruthyDate(posting_day)
        THEN Put(p4, "postingDay", Strftime(posting_day)) ELSE p4

\* The parameter mapping get_content assembles.
GetContentParams(content_type, space_key, title, status, posting_day) ==
    LET p1 == IF TruthyStr(content_type) /\ content_type \in {"page", "blogpost"}
              THEN Put(EmptyDict, "type", content_type) ELSE EmptyDict
        p2 == IF TruthyStr(space_key) THEN Put(p1, "spaceKey", space_key) ELSE p1
        p3 == IF TruthyStr(title) THEN Put(p2, "title", title) ELSE p2
        p4 == IF TruthyStr(status) THEN Put(p3, "status", status) ELSE p3
    IN  IF TruthyDate(posting_day) /\ content_type = "blogpost"
        THEN Put(p4, "postingDay", Strftime(posting_day)) ELSE p4

\* get_content
GetContentOp(content_type, space_key, title, status, posting_day, expand) ==
    Sequence(GetPagedResults("Page", "content",
        GetContentParams(content_type, space_key, title, status, posting_day),
        expand))

\* A variant of UserCheckFails that only rejects a call naming neither.
UserCheckFailsOnlyNeither(username, user_key) ==
    ~TruthyStr(username) /\ ~TruthyStr(user_key)

\* `(not username and not user_key) or (username and user_key)`
UserCheckFails(username, user_key) ==
    \/ ~TruthyStr(username) /\ ~TruthyStr(user_key)
    \/ TruthyStr(username) /\ TruthyStr(user_key)

\* The parameter mapping get_user and get_user_groups assemble.
UserParams(username, user_key) ==
    LET p1 == IF TruthyStr(username) THEN Put(EmptyDict, "username", username)
              ELSE EmptyDict
    IN  IF TruthyStr(user_key) THEN Put(p1, "key", user_key) ELSE p1

\* get_user
GetUserOp(cl, ss, username, user_key, expand, body) ==
    IF UserCheckFails(username, user_key) THEN Raised("ValueError")
    ELSE Returned(GetSingleResult(cl, ss, "User", "user",
                                  UserParams(username, user_key), expand, body))

\* get_user_groups
GetUserGroupsOp(username, user_key, expand) ==
    IF UserCheckFails(username, user_key) THEN Raised("ValueError")
    ELSE Sequence(GetPagedResults("Group", "user/memberof",
                                  UserParams(username, user_key), expand))

\* get_space
GetSpaceOp(cl, ss, space_key, expand, body) ==
    Returned(GetSingleResult(cl, ss, "Space", "space/" \o space_key,
                             EmptyDict, expand, body))

\* get_group
GetGroupOp(cl, ss, name, expand, body) ==
    Returned(GetSingleResult(cl, ss, "Group", "group/" \o name,
                             EmptyDict, expand, body))

\* get_long_task
GetLongTaskOp(task_id, expand) ==
    Sequence(GetPagedResults("LongTask", "longtask/" \o task_id, EmptyDict, expand))

\* get_long_tasks
GetLongTasksOp(expand) ==
    Sequence(GetPagedResults("LongTask", "longtask", EmptyDict, expand))

\* ------------------------------------------------------------- the session

\* __enter__: a new session carrying the credentials becomes self._client;
\* the method has no return statement.
Enter(ss) ==
    [sessions |-> Append(ss, NewSession), client |-> Len(ss) + 1,
     return |-> NoneObj]

\* A variant of Exit that leaves the session as it is.
ExitLeavesOpen(cl, ss) == ss

\* __exit__: `if self._client: self._client.close()`
Exit(cl, ss) ==
    IF cl # NoClient THEN [ss EXCEPT ![cl].open = FALSE] ELSE ss

\* -------------------------------------------------------------- the server

\* The next-link of the n-th page of an iteration.
NextLink(n) == "/rest/api/content?start=" \o ToString(25 * n)

\* The k objects of the n-th page.
PageItems(n, k) == [j \in 1..k |-> [id |-> ToString(n) \o "-" \o ToString(j)]]

\* The decoded body of the n-th page: links is "missing" (no `_links` key),
\* "last" (a `_links` mapping without `next`) or "next"; k < 0 is a body
\* without the `results` key.
PageBody(links, k, n) ==
    LET linkPart == IF links = "missing" THEN EmptyDict
                    ELSE "_links" :> (IF links = "next"
                                      THEN ("next" :> NextLink(n)) @@ ("base" :> base_url)
                                      ELSE ("base" :> base_url))
        resPart == IF k < 0 THEN EmptyDict ELSE "results" :> PageItems(n, k)
    IN  linkPart @@ resPart

\* The bodies the server may answer the n-th request of an iteration with:
\* a page is empty or full or lacks its result list, and a server's page
\* sequence is finite, so the page MaxPages carries no next.
ServerPages(n) ==
    { PageBody(links, k, n) :
        links \in (IF n < MaxPages THEN {"missing", "last", "next"}
                   ELSE {"missing", "last"}),
        k \in {-1, 0, MaxItems} }

\* The bodies the server may answer a single-resource request with.
ServerObjects == { [id |-> "a"], [id |-> "b"] }

\* ------------------------------------------------------------ the callers

ContentTypes == {"page", "blogpost", "comment"}
SpaceKeys == {NoneStr, "DOCS"}
Titles == {NoneStr, "Home"}
Statuses == {NoneStr}
PostingDays == {NoneDate, [y |-> 2024, m |-> 3, d |-> 5]}
Expands == {NoneList, <<"body.storage", "space">>}
Usernames == {NoneStr, "", "jdoe"}
UserKeys == {NoneStr, "k1"}
GroupNames == {"admins"}
TaskIds == {"t-1"}

\* The arguments of a call that the properties read; NoneStr and NoneDate
\* where the operation has no such argument.
NoArgs ==
    [content_type |-> NoneStr, posting_day |-> NoneDate, username |-> NoneStr,
     user_key |-> NoneStr, key |-> NoneStr, expand |-> NoneList]

\* The latest call of a query operation: its name, its arguments, the
\* parameter mapping it handed to the pager, and its outcome.
CallRecord(op, args, r) ==
    [op |-> op, args |-> args, params |-> r.gen.params, kind |-> r.kind,
     reqs |-> r.reqs, ret |-> r.ret]

NoCall == CallRecord("", NoArgs, Raised(""))

\* The caller is between statements: no exception in flight, no next() in
\* progress.
Idle == raised = "" /\ gen.st # "running"

\* A call of a query operation on both instances, r and rA their outcomes.
\* The caller holds one sequence at a time: an earlier one was released.
Invoke(op, args, r, rA) ==
    /\ Idle
    /\ gen.st = "none"
    /\ call' = CallRecord(op, args, r)
    /\ gen' = r.gen
    /\ raised' = IF r.kind \in {"object", "sequence"} THEN "" ELSE r.kind
    /\ callA' = CallRecord(op, args, rA)
    /\ genA' = rA.gen
    /\ UNCHANGED <<client, sessions, block, asTarget>>

\* ------------------------------------------------------------ state machine

Init ==
    /\ client = NoClient
    /\ sessions = <<>>
    /\ block = [in |-> FALSE, exit |-> ""]
    /\ asTarget = "unbound"
    /\ raised = ""
    /\ gen = NoGen
    /\ call = NoCall
    /\ genA = NoGen
    /\ callA = NoCall

\* `with c:` or `with Confluence(...) as c:` is entered.  The blocks of an
\* instance follow one another: a block is not entered inside itself.
EnterBlock ==
    /\ Idle
    /\ ~block.in
    /\ Len(sessions) < MaxSessions
    /\ LET e == Enter(sessions)
       IN  /\ sessions' = e.sessions
           /\ client' = e.client
           /\ asTarget' = e.return
    /\ block' = [in |-> TRUE, exit |-> ""]
    /\ UNCHANGED <<raised, gen, call, genA, callA>>

\* The block is left, normally or by the exception in flight; __exit__
\* returns None, so the exception goes on to the code around the block.
ExitBlock ==
    /\ block.in
    /\ gen.st # "running"
    /\ sessions' = Exit(client, sessions)
    /\ block' = [in |-> FALSE, exit |-> IF raised = "" THEN "normal" ELSE "error"]
    /\ UNCHANGED <<client, asTarget, raised, gen, call, genA, callA>>

\* The caller handles the exception in flight.
Catch ==
    /\ raised # ""
    /\ raised' = ""
    /\ UNCHANGED <<client, sessions, block, asTarget, gen, call, genA, callA>>

\* Inside the block, an operation is invoked on the name bound by `as`.
UseAsTarget ==
    /\ Idle
    /\ block.in
    /\ asTarget = NoneObj
    /\ raised' = "AttributeError"
    /\ UNCHANGED <<client, sessions, block, asTarget, gen, call, genA, callA>>

GetContent ==
    \E content_type \in ContentTypes, space_key \in SpaceKeys, title \in Titles,
       status \in Statuses, posting_day \in PostingDays, expand \in Expands :
        LET r == GetContentOp(content_type, space_key, title, status,
                              posting_day, expand)
        IN  Invoke("get_content",
                   [NoArgs EXCEPT !.content_type = content_type,
                                  !.posting_day = posting_day, !.expand = expand],
                   r, r)

GetUser ==
    \E username \in Usernames, user_key \in UserKeys, expand \in Expands,
       body \in ServerObjects :
        Invoke("get_user",
               [NoArgs EXCEPT !.username = username, !.user_key = user_key,
                              !.expand = expand],
               GetUserOp(client, sessions, username, user_key, expand, body),
               GetUserOp(NoClient, sessions, username, user_key, expand, body))

GetUserGroups ==
    \E username \in Usernames, user_key \in UserKeys, expand \in Expands :
        LET r == GetUserGroupsOp(username, user_key, expand)
        IN  Invoke("get_user_groups",
                   [NoArgs EXCEPT !.username = username, !.user_key = user_key,
                                  !.expand = expand],
                   r, r)

GetSpace ==
    \E space_key \in SpaceKeys \ {NoneStr}, expand \in Expands,
       body \in ServerObjects :
        Invoke("get_space", [NoArgs EXCEPT !.key = space_key, !.expand = expand],
               GetSpaceOp(client, sessions, space_key, expand, body),
               GetSpaceOp(NoClient, sessions, space_key, expand, body))

GetGroup ==
    \E name \in GroupNames, expand \in Expands, body \in ServerObjects :
        Invoke("get_group", [NoArgs EXCEPT !.key = name, !.expand = expand],
               GetGroupOp(client, sessions, name, expand, body),
               GetGroupOp(NoClient, sessions, name, expand, body))

GetLongTask ==
    \E task_id \in TaskIds, expand \in Expands :
        LET r == GetLongTaskOp(task_id, expand)
        IN  Invoke("get_long_task",
                   [NoArgs EXCEPT !.key = task_id, !.expand = expand], r, r)

GetLongTasks ==
    \E expand \in Expands :
        LET r == GetLongTasksOp(expand)
        IN  Invoke("get_long_tasks", [NoArgs EXCEPT !.expand = expand], r, r)

\* The caller drops the sequence, exhausted or not; nothing is requested.
Release ==
    /\ Idle
    /\ gen.st # "none"
    /\ gen' = NoGen
    /\ genA' = NoGen
    /\ UNCHANGED <<client, sessions, block, asTarget, raised, call, callA>>

\* The consumer advances the sequence: next().
Resume ==
    /\ Idle
    /\ gen.st # "none"
    /\ gen' = GenResume(gen)
    /\ genA' = GenResume(genA)
    /\ UNCHANGED <<client, sessions, block, asTarget, raised, call, callA>>

\* The generator issues a GET and the server answers.
Fetch ==
    /\ gen.st = "running"
    /\ GenPC(gen) = "fetch"
    /\ \E search_results \in ServerPages(Len(gen.served) + 1) :
        /\ gen' = GenFetch(client, sessions, gen, search_results)
        /\ genA' = GenFetch(NoClient, sessions, genA, search_results)
    /\ raised' = IF gen'.st = "failed" THEN gen'.last ELSE raised
    /\ UNCHANGED <<client, sessions, block, asTarget, call, callA>>

\* The generator delivers the next object of the page.
Yield ==
    /\ gen.st = "running"
    /\ GenPC(gen) = "yield"
    /\ gen' = GenYield(gen)
    /\ genA' = GenYield(genA)
    /\ UNCHANGED <<client, sessions, block, asTarget, raised, call, callA>>

\* The generator is exhausted.
Return ==
    /\ gen.st = "running"
    /\ GenPC(gen) = "return"
    /\ gen' = GenReturn(gen)
    /\ genA' = GenReturn(genA)
    /\ UNCHANGED <<client, sessions, block, asTarget, raised, call, callA>>

Next ==
    \/ EnterBlock
    \/ ExitBlock
    \/ Catch
    \/ UseAsTarget
    \/ GetContent
    \/ GetUser
    \/ GetUserGroups
    \/ GetSpace
    \/ GetGroup
    \/ GetLongTask
    \/ GetLongTasks
    \/ Release
    \/ Resume
    \/ Fetch
    \/ Yield
    \/ Return

Spec == Init /\ [][Next]_vars

\* ------------------------------------------------------------- properties

\* A page body with both structural keys.
WellFormed(sr) == "_links" \in DOMAIN sr /\ "results" \in DOMAIN sr

\* A page body that carries `_links.next`.
HasNext(sr) == "_links" \in DOMAIN sr /\ "next" \in DOMAIN sr["_links"]

\* The objects of a page body, each as the domain object the consumer gets.
ItemsOf(item_type, sr) ==
    IF "results" \in DOMAIN sr
    THEN [j \in 1..Len(sr["results"]) |-> [type |-> item_type, json |-> sr["results"][j]]]
    ELSE <<>>

\* The concatenation of the pages' objects, in page order and in-page order.
RECURSIVE Concatenation(_, _)
Concatenation(item_type, pages) ==
    IF pages = <<>> THEN <<>>
    ELSE ItemsOf(item_type, pages[1]) \o Concatenation(item_type, Tail(pages))

\* A request as it goes over the wire.
Wire(req) == [url |-> req.url, params |-> req.params, auth |-> req.auth]
WireAll(reqs) == [i \in 1..Len(reqs) |-> Wire(reqs[i])]

AllWellFormed(g) == \A i \in 1..Len(g.served) : WellFormed(g.served[i])

Active(g) == g.st \in {"created", "running", "suspended"}

\* A bound on the steps an iteration has left: pages the server may still
\* send, objects of the page still to deliver, and the position.
Measure(g) ==
    (MaxPages - Len(g.served)) * (2 * MaxItems + 3) + 2 * Len(g.results)
    + (IF g.st \in {"created", "suspended"} THEN 2
       ELSE IF g.st = "running" THEN 1 ELSE 0)

C1State ==
    (gen.st # "none" /\ AllWellFormed(gen)) =>
        LET n == Len(gen.served)
            all == Concatenation(gen.item_type, gen.served)
        IN  /\ Len(gen.reqs) = n
            /\ \A i \in 1..(n - 1) : HasNext(gen.served[i])
            /\ gen.out \o [j \in 1..Len(gen.results) |->
                             [type |-> gen.item_type, json |-> gen.results[j]]] = all
            /\ (n >= 1 /\ ~HasNext(gen.served[n])) => gen.url = NoneStr
            /\ gen.st = "done" =>
                 /\ n >= 1
                 /\ ~HasNext(gen.served[n])
                 /\ gen.out = all

C1Step ==
    (Active(gen) /\ gen' # gen /\ gen'.st # "none") =>
        /\ Measure(gen') < Measure(gen)
        /\ Measure(gen') >= 0

\* C1: consuming a paged sequence over pages 1..k, of which only page k lacks
\* `_links.next`, issues one GET per page and none after page k, delivers
\* exactly the pages' objects in page order and in-page order, each once, and
\* terminates: every step of the iteration lowers a bounded measure.
C1_PagedConcatenation == []C1State /\ [][C1Step]_vars

C1_Witness ==
    /\ gen.st = "done"
    /\ AllWellFormed(gen)
    /\ Len(gen.served) >= 2
    /\ Len(gen.reqs) = Len(gen.served)
    /\ Len(gen.out) >= 3

C2State ==
    /\ gen.st = "created" => gen.reqs = <<>>
    /\ call.kind = "sequence" => call.reqs = <<>>

C2Step ==
    Len(gen'.reqs) > Len(gen.reqs) =>
        /\ gen.st = "running"
        /\ Len(gen'.reqs) = Len(gen.reqs) + 1
        /\ gen.results = <<>>
        /\ Len(gen.out) = Len(Concatenation(gen.item_type, gen.served))

\* C2: a paged call issues no request itself; a GET is issued only inside a
\* next() of the consumer, one at a time, and only when every object of the
\* pages received so far has been delivered.
C2_NoReadAhead == []C2State /\ [][C2Step]_vars

C2_Witness ==
    /\ gen.st = "suspended"
    /\ Len(gen.reqs) = 2
    /\ Len(gen.served[1]["results"]) >= 1
    /\ gen.results # <<>>
    /\ gen.out # <<>>

\* C3: the first request of an iteration goes to the API root plus the path
\* with the assembled parameters (and expand); every later request goes to
\* base_url plus the previous page's next-link with an empty mapping.
C3_OnlyFirstRequestCarriesParams ==
    gen.st # "none" =>
        \A i \in 1..Len(gen.reqs) :
            IF i = 1
            THEN /\ gen.reqs[1].url = base_url \o "/rest/api/" \o gen.path
                 /\ DOMAIN gen.reqs[1].params \ {"expand"} = DOMAIN call.params
                 /\ \A k \in DOMAIN call.params :
                        gen.reqs[1].params[k] = call.params[k]
                 /\ ("expand" \in DOMAIN gen.reqs[1].params)
                        <=> (call.args.expand \notin {NoneList, <<>>})
            ELSE /\ HasNext(gen.served[i - 1])
                 /\ gen.reqs[i].url = base_url \o gen.served[i - 1]["_links"]["next"]
                 /\ DOMAIN gen.reqs[i].params = {}

C3_Witness ==
    /\ Len(gen.reqs) = 2
    /\ "expand" \in DOMAIN gen.reqs[1].params
    /\ "spaceKey" \in DOMAIN gen.reqs[1].params
    /\ gen.reqs[2].url = "https://wiki/confluence/rest/api/content?start=25"

\* C4: get_user and get_user_groups raise ValueError in the call itself, with
\* no request issued and no sequence returned, when both or neither of
\* username and user_key are set (None and '' count as not set); with exactly
\* one set the call passes and sends that one key.
C4_ExactlyOneUserKey ==
    call.op \in {"get_user", "get_user_groups"} =>
        LET u == call.args.username \notin {NoneStr, ""}
            k == call.args.user_key \notin {NoneStr, ""}
            key == IF u THEN "username" ELSE "key"
            val == IF u THEN call.args.username ELSE call.args.user_key
            Sends(params) == /\ DOMAIN params \ {"expand"} = {key}
                             /\ params[key] = val
        IN  /\ (u = k) => /\ call.kind = "ValueError"
                          /\ call.reqs = <<>>
                          /\ gen.st = "none"
            /\ (u # k) =>
                 IF call.op = "get_user"
                 THEN /\ call.kind = "object"
                      /\ Len(call.reqs) = 1
                      /\ Sends(call.reqs[1].params)
                 ELSE /\ call.kind = "sequence"
                      /\ Sends(call.params)
                      /\ (gen.st # "none" /\ Len(gen.reqs) >= 1)
                            => Sends(gen.reqs[1].params)

C4_Witness ==
    /\ call.op = "get_user_groups"
    /\ call.args.username = "jdoe"
    /\ call.args.user_key = "k1"
    /\ call.kind = "ValueError"
    /\ raised = "ValueError"
    /\ gen.st = "none"

\* The exact-key resource path of a single-item lookup.
ExactKeyPath(c) ==
    IF c.op = "get_space" THEN "space/" \o c.args.key
    ELSE IF c.op = "get_user" THEN "user"
    ELSE IF c.op = "get_group" THEN "group/" \o c.args.key
    ELSE "longtask/" \o c.args.key

\* C5: a call of get_space, get_user, get_group or get_long_task that passes
\* its argument check returns one hydrated object, having issued exactly one
\* GET to the exact-key path, and returns no sequence.
C5_SingleItemLookups ==
    (call.op \in {"get_space", "get_user", "get_group", "get_long_task"}
       /\ call.kind # "ValueError") =>
        /\ call.kind = "object"
        /\ Len(call.reqs) = 1
        /\ call.reqs[1].url = base_url \o "/rest/api/" \o ExactKeyPath(call)

\* C6: get_content always returns its sequence, and its request carries
\* postingDay exactly when a posting_day was given and content_type is
\* 'blogpost'; 2024-03-05 is sent as "2024-03-05".
C6_PostingDayBlogpostOnly ==
    call.op = "get_content" =>
        LET want == call.args.posting_day # NoneDate
                    /\ call.args.content_type = "blogpost"
        IN  /\ call.kind = "sequence"
            /\ ("postingDay" \in DOMAIN call.params) <=> want
            /\ (want /\ call.args.posting_day = [y |-> 2024, m |-> 3, d |-> 5])
                 => call.params["postingDay"] = "2024-03-05"
            /\ (gen.st # "none" /\ Len(gen.reqs) >= 1)
                 => (("postingDay" \in DOMAIN gen.reqs[1].params) <=> want)

C6_Witness ==
    /\ call.op = "get_content"
    /\ call.args.content_type = "page"
    /\ call.args.posting_day # NoneDate
    /\ Len(gen.reqs) >= 1
    /\ "postingDay" \notin DOMAIN gen.reqs[1].params
    /\ "type" \in DOMAIN gen.reqs[1].params

C8_AsTargetIsTheClient == block.in => asTarget = "self"

\* C9: the instance that uses the session of its block and the instance that
\* never enters a block send the same requests (url, parameters,
\* credentials) and give the same objects, items and outcomes.
C9_ScopedEqualsAdhoc ==
    /\ WireAll(gen.reqs) = WireAll(genA.reqs)
    /\ gen.out = genA.out
    /\ gen.st = genA.st
    /\ gen.last = genA.last
    /\ call.kind = callA.kind
    /\ WireAll(call.reqs) = WireAll(callA.reqs)
    /\ call.ret = callA.ret

C9_Witness ==
    /\ block.in
    /\ Len(gen.reqs) = 2
    /\ gen.reqs[1].via = "session"
    /\ gen.reqs[2].via = "session"
    /\ genA.reqs[2].via = "adhoc"
    /\ "expand" \in DOMAIN gen.reqs[1].params
    /\ Len(gen.out) >= 2

C10State ==
    \A i \in 1..Len(gen.served) :
        ~WellFormed(gen.served[i]) =>
            /\ i = Len(gen.served)
            /\ Len(gen.reqs) = i
            /\ gen.st = "failed"
            /\ gen.last \in {"KeyError", "StopIteration"}
            /\ gen.out = Concatenation(gen.item_type, SubSeq(gen.served, 1, i - 1))

C10Step ==
    /\ (gen.st = "running" /\ gen'.st = "failed") => raised' = "KeyError"
    /\ (gen.st = "failed" /\ gen'.st # "none") =>
          \/ gen' = gen
          \/ gen' = [gen EXCEPT !.last = "StopIteration"]
    /\ (gen.st = "none" /\ gen'.st # "none") =>
          /\ gen'.st = "created"
          /\ gen'.reqs = <<>>
          /\ gen'.out = <<>>

\* C10: a page body without `_links` or without `results` ends the iteration
\* at that page with KeyError: none of its objects is delivered, no later
\* page is requested, a further next() gives StopIteration and nothing else,
\* and only a new call starts again, from its first request.
C10_MalformedPageFails == []C10State /\ [][C10Step]_vars

C10_Witness ==
    /\ gen.st = "failed"
    /\ gen.last = "StopIteration"
    /\ Len(gen.served) = 2
    /\ "results" \in DOMAIN gen.served[2]
    /\ Len(gen.served[2]["results"]) >= 1
    /\ Len(gen.out) >= 1

====
